---- MODULE Spec2Model ----
(***************************************************************************)
(* A model of ajustador/optimize.py: the simulation dispatcher             *)
(* (exe_map, execute, Simulation), the recovery of persisted simulations   *)
(* (SimulationResult, SimulationResults) and the optimization driver Fit.  *)
(*                                                                         *)
(* One driving thread (main) runs the calls made on a Fit; the tasks of a  *)
(* pooled or asynchronous Simulation run in the worker processes of the    *)
(* multiprocessing pool and interleave with it.                            *)
(***************************************************************************)
EXTENDS Integers, Sequences, FiniteSets, TLC

VARIABLES
    disk,           \* the directories under Fit.dirname, in creation order
    sims,           \* the Simulation objects constructed so far
    exe,            \* module global _exe: 0 for None, else the pool it holds,
                    \* pools numbered as multiprocessing.Pool() makes them
    sim_value,      \* Fit._sim_value: cache of Fit.sim, key -> entry
    fitness_value,  \* Fit._fitness_value: cache of Fit.fitness
    fitness_full_value, \* Fit._fitness_full_value: cache of Fit.fitness_full
    history,        \* Fit._history
    async_,         \* Fit._async
    fitness_worst,  \* Fit._fitness_worst: None, or <<i>> when it is the array
                    \* object that is entry i of the history
    optimizer,      \* Fit.optimizer
    main,           \* the driving thread: where it is in the call it runs
    ret,            \* what the last finished top-level call returned or raised
    aju,            \* an AjuParam object a caller made on its own
    psets           \* the ParamSet objects a caller made on its own

vars == <<disk, sims, exe, sim_value, fitness_value, fitness_full_value,
          history, async_, fitness_worst, optimizer, main, ret, aju, psets>>

\* the objects of the callers of Param, AjuParam and ParamSet, which no
\* Simulation and no Fit of the model refers to
pvars == <<aju, psets>>

\* everything a Fit, its simulations and the pool write
fitvars == <<disk, sims, exe, sim_value, fitness_value, fitness_full_value,
             history, async_, fitness_worst, optimizer, main>>

-----------------------------------------------------------------------------
(* Bounds of the model *)

\* number of distinct scaled parameter vectors the callers and ask() use
NVec == 2
\* number of Simulation objects constructed in one run
MaxSims == 2
\* number of Simulation objects a caller constructs on its own
MaxDirect == 3
\* largest count passed to do_fit
MaxCount == 1
\* number of candidates of one ask()
PopSize == 2
\* largest value of last passed to load
MaxLast == 2
\* number of directories earlier runs left in Fit.dirname
MaxPrior == 2
\* bits of the significand of a float (sys.float_info.mant_dig, 53 in CPython)
Precision == 5
\* the smallest positive float is 2^-MinExp (2^-1074 in CPython)
MinExp == 4
\* number of calls of scale and unscale fed with each other's results
MaxChain == 3
\* number of params of a ParamSet a caller makes
MaxParams == 2
\* number of ParamSet objects a caller makes
MaxPsets == 2
\* number of values a caller passes to scale, unscale and unscaled_dict
MaxValues == 2
\* largest absolute value of an injection current put into a file name
MaxInjection == 12

\* measurement.injection: the stimulation conditions, in the measurement's order
Currents == <<2, 1>>
NCond == Len(Currents)

None == <<>>
\* last=None
NoLast == -1
Lasts == {NoLast} \cup (0..MaxLast)

\* a NaN component of a fitness vector
NaN == -1
\* Fit.fitness_max
fitness_max == 200
\* max_fitness passed by fitness_full to sim_fitness
full_max_fitness == 18

\* values the fitness function returns (full=False), and the components of
\* the vector it returns (full=True)
FitVals == {1, 2}
FullVals == {5, 30, NaN}
\* number of components of the vector (full=True)
NFeat == 1
FullVecs == [1..NFeat -> FullVals]

Abs(x) == IF x < 0 THEN -x ELSE x

-----------------------------------------------------------------------------
(* Python values of the callers of Param, AjuParam and ParamSet: None, a str,
   or a number.  A number is m * 2^e with m odd (0 is m = 0, e = 0); a float
   is a number of at most Precision significant bits that is a multiple of
   2^-MinExp, and the result of a float operation is the float nearest to
   the exact result, ties to even. *)

NoneVal == [t |-> "none", s |-> "", m |-> 0, e |-> 0]
Str(s) == [t |-> "str", s |-> s, m |-> 0, e |-> 0]

RECURSIVE Num(_, _)
Num(m, e) ==
    IF m = 0 THEN [t |-> "num", s |-> "", m |-> 0, e |-> 0]
    ELSE IF m % 2 = 0 THEN Num(m \div 2, e + 1)
    ELSE [t |-> "num", s |-> "", m |-> m, e |-> e]

PyInt(n) == Num(n, 0)

\* an exception raised where a value was to be returned
Err(name) == [t |-> "err", s |-> name, m |-> 0, e |-> 0]

RECURSIVE Pow2(_)
Pow2(k) == IF k = 0 THEN 1 ELSE 2 * Pow2(k - 1)

RECURSIVE Pow10(_)
Pow10(k) == IF k = 0 THEN 1 ELSE 10 * Pow10(k - 1)

Max(a, b) == IF a >= b THEN a ELSE b
Min(a, b) == IF a < b THEN a ELSE b

\* a number as the fraction Numer / Denom, Denom > 0
Numer(x) == IF x.e >= 0 THEN x.m * Pow2(x.e) ELSE x.m
Denom(x) == IF x.e >= 0 THEN 1 ELSE Pow2(-x.e)

\* x <= y for numbers
Le(x, y) == Numer(x) * Denom(y) <= Numer(y) * Denom(x)

\* abs(x)
AbsNum(x) == [x EXCEPT !.m = Abs(x.m)]

RECURSIVE FloorLog2(_, _)
\* floor(log2(n / d)) for n, d > 0
FloorLog2(n, d) ==
    IF n >= d THEN (IF n >= 2 * d THEN 1 + FloorLog2(n, 2 * d) ELSE 0)
    ELSE FloorLog2(2 * n, d) - 1

RECURSIVE FloorLog10(_, _)
\* floor(log10(n / d)) for n, d > 0
FloorLog10(n, d) ==
    IF n >= d THEN (IF n >= 10 * d THEN 1 + FloorLog10(n, 10 * d) ELSE 0)
    ELSE FloorLog10(10 * n, d) - 1

\* a / b rounded to the nearest integer, ties to even (a >= 0, b > 0)
RoundHalfEven(a, b) ==
    LET q == a \div b
        r == a % b
    IN IF 2 * r < b THEN q
       ELSE IF 2 * r > b THEN q + 1
       ELSE IF q % 2 = 0 THEN q ELSE q + 1

\* the float nearest to n / d (d > 0): Precision significant bits, and no
\* bit below 2^-MinExp, so that a magnitude under 2^-MinExp / 2 becomes 0.0
Fl(n, d) ==
    IF n = 0 THEN Num(0, 0)
    ELSE LET a == Abs(n)
             q == Max(FloorLog2(a, d) - (Precision - 1), -MinExp)
             m == IF q >= 0 THEN RoundHalfEven(a, d * Pow2(q))
                  ELSE RoundHalfEven(a * Pow2(-q), d)
         IN Num(IF n < 0 THEN -m ELSE m, q)

\* x * y and x / y (y nonzero) in float arithmetic
FMul(x, y) == Fl(Numer(x) * Numer(y), Denom(x) * Denom(y))
FDiv(x, y) ==
    LET n == Numer(x) * Denom(y)
        d == Denom(x) * Numer(y)
    IN IF d > 0 THEN Fl(n, d) ELSE Fl(-n, -d)

\* 10**k as AjuParam uses it: an int for k >= 0, which becomes a float when
\* a float is divided or multiplied by it, and a float for k < 0
PyPow10(k) == IF k >= 0 THEN Fl(Pow10(k), 1) ELSE Fl(1, Pow10(-k))

-----------------------------------------------------------------------------
(* Param, AjuParam: the objects, each with the identity id *)

\* Param.__init__; min, max and fixed are the class attributes
Param(id, name, value) ==
    [id |-> id, name |-> name, value |-> value, fixed |-> TRUE,
     min |-> NoneVal, max |-> NoneVal, scaling |-> NoneVal]

\* AjuParam.__init__, lines 263-271, for a number value and min, max each a
\* number or None: self._scaling.  math.log10 is taken as exact: abs(rr) <= 1
\* iff 0.1 <= |val| <= 10, and math.floor(rr) is floor(log10(|val|)).
AjuParam_scaling(value, min, max) ==
    LET val == IF value.m # 0 THEN value
               ELSE IF max # NoneVal /\ max.m # 0 THEN max
               ELSE IF min # NoneVal THEN min ELSE PyInt(0)
        n == Abs(Numer(val))
        d == Denom(val)
    IN IF val.m = 0 \/ (10 * n >= d /\ n <= 10 * d) THEN PyInt(1)
       ELSE PyPow10(FloorLog10(n, d))

\* AjuParam.__init__
AjuParam(id, name, value, min, max) ==
    [id |-> id, name |-> name, value |-> value, fixed |-> FALSE,
     min |-> min, max |-> max, scaling |-> AjuParam_scaling(value, min, max)]

\* AjuParam.scale: val / self._scaling
AjuParam_scale(p, val) ==
    IF p.scaling.m = 0 THEN Err("ZeroDivisionError") ELSE FDiv(val, p.scaling)

\* AjuParam.unscale: val * self._scaling
AjuParam_unscale(p, val) == FMul(val, p.scaling)

\* AjuParam.scaled
AjuParam_scaled(p) == AjuParam_scale(p, p.value)

\* AjuParam.valid
AjuParam_valid(p, val) ==
    /\ p.min = NoneVal \/ Le(p.min, val)
    /\ p.max = NoneVal \/ Le(val, p.max)

\* no AjuParam object
NoParam == Param(0, "", NoneVal)

-----------------------------------------------------------------------------
(* ParamSet: the objects a caller makes *)

\* a call that returned v, a call that raised
Ok(v) == [err |-> "none", val |-> <<v>>]
Raise(name) == [err |-> name, val |-> <<>>]

\* an argument of ParamSet(): a Param object, or a tuple (name, value, ...)
\* with rest the elements after value
Made(obj) == [inst |-> TRUE, obj |-> obj, name |-> "", value |-> NoneVal, rest |-> <<>>]
Tuple(name, value, rest) ==
    [inst |-> FALSE, obj |-> NoParam, name |-> name, value |-> value, rest |-> rest]

\* Param.make, for a Param object and for the tuples (name, str),
\* (name, number, 'fixed'), (name, number), (name, number, min) and
\* (name, number, min, max); id is the identity of the object if it makes one
Param_make(id, args) ==
    IF args.inst THEN args.obj
    ELSE IF args.value.t = "str" THEN Param(id, args.name, args.value)
    ELSE IF Len(args.rest) = 1 /\ args.rest[1] = Str("fixed")
    THEN Param(id, args.name, args.value)
    ELSE AjuParam(id, args.name, args.value,
                  IF Len(args.rest) >= 1 THEN args.rest[1] ELSE NoneVal,
                  IF Len(args.rest) >= 2 THEN args.rest[2] ELSE NoneVal)

\* ParamSet.__init__: the object, with the cache of utilities.once for
\* scaled_bounds (once, empty until the first read) and the number of times
\* the body of scaled_bounds ran; the objects made get the identities after
\* base
ParamSet(args, base) ==
    LET params == [i \in 1..Len(args) |-> Param_make(base + i, args[i])]
    IN [params |-> params,
        fixedparams |-> SelectSeq(params, LAMBDA p : p.fixed),
        ajuparams |-> SelectSeq(params, LAMBDA p : ~p.fixed),
        once |-> <<>>, computed |-> 0]

\* the values passed to scale, unscale and unscaled_dict: a list, or a
\* generator that will yield the items
List(items) == [gen |-> FALSE, items |-> items]
Gen(items) == [gen |-> TRUE, items |-> items]

\* ParamSet.scale: the assert lets a generator pass, and zip stops at the
\* shorter of ajuparams and values
ParamSet_scale(ps, values) ==
    IF ~values.gen /\ Len(values.items) # Len(ps.ajuparams)
    THEN Raise("AssertionError")
    ELSE LET n == Min(Len(ps.ajuparams), Len(values.items))
             xs == [i \in 1..n |-> AjuParam_scale(ps.ajuparams[i], values.items[i])]
         IN IF \E i \in 1..n : xs[i].t = "err" THEN Raise("ZeroDivisionError")
            ELSE Ok(xs)

\* ParamSet.scale_dict: the generator looks each name up as zip asks for it
ParamSet_scale_dict(ps, values) ==
    IF \E i \in 1..Len(ps.ajuparams) : ps.ajuparams[i].name \notin DOMAIN values
    THEN Raise("KeyError")
    ELSE ParamSet_scale(ps, Gen([i \in 1..Len(ps.ajuparams) |->
                                    values[ps.ajuparams[i].name]]))

\* ParamSet.scaled
ParamSet_scaled(ps) ==
    ParamSet_scale(ps, Gen([i \in 1..Len(ps.ajuparams) |-> ps.ajuparams[i].value]))

\* the assert of unscale and unscaled_dict: len() of a generator raises
LenChecked(ps, scaled_values) ==
    IF scaled_values.gen THEN "TypeError"
    ELSE IF Len(scaled_values.items) # Len(ps.ajuparams) THEN "AssertionError"
    ELSE "none"

\* ParamSet.unscale
ParamSet_unscale(ps, scaled_values) ==
    IF LenChecked(ps, scaled_values) # "none" THEN Raise(LenChecked(ps, scaled_values))
    ELSE Ok([i \in 1..Len(ps.ajuparams) |->
                AjuParam_unscale(ps.ajuparams[i], scaled_values.items[i])])

\* an item of an OrderedDict
Item(name, value) == [name |-> name, value |-> value]

RECURSIVE OrderedDict(_)
\* collections.OrderedDict(pairs): a name that comes again keeps its place
\* and gets the later value
OrderedDict(pairs) ==
    IF pairs = <<>> THEN <<>>
    ELSE LET d == OrderedDict(SubSeq(pairs, 1, Len(pairs) - 1))
             it == pairs[Len(pairs)]
         IN IF \E i \in 1..Len(d) : d[i].name = it.name
            THEN [i \in 1..Len(d) |-> IF d[i].name = it.name THEN it ELSE d[i]]
            ELSE Append(d, it)

\* ParamSet.unscaled_dict
ParamSet_unscaled_dict(ps, scaled_values) ==
    IF LenChecked(ps, scaled_values) # "none" THEN Raise(LenChecked(ps, scaled_values))
    ELSE Ok(OrderedDict(
             [i \in 1..Len(ps.ajuparams) |->
                 Item(ps.ajuparams[i].name,
                      AjuParam_unscale(ps.ajuparams[i], scaled_values.items[i]))]
             \o [i \in 1..Len(ps.fixedparams) |->
                    Item(ps.fixedparams[i].name, ps.fixedparams[i].value)]))

\* ParamSet.update that makes the new AjuParams without the bounds
ParamSet_update_nobounds(ps, kwargs, base) ==
    IF \E i \in 1..Len(ps.params) :
          /\ ~ps.params[i].fixed
          /\ ps.params[i].name \in DOMAIN kwargs
          /\ kwargs[ps.params[i].name].t # "num"
    THEN Raise("TypeError")
    ELSE Ok(ParamSet(
             [i \in 1..Len(ps.params) |->
                 LET p == ps.params[i]
                 IN IF p.name \in DOMAIN kwargs
                    THEN Made(IF ~p.fixed
                              THEN AjuParam(base + i, p.name, kwargs[p.name],
                                            NoneVal, NoneVal)
                              ELSE Param(base + i, p.name, kwargs[p.name]))
                    ELSE Made(p)],
             base))

\* ParamSet.update: a param named in kwargs is made anew, an AjuParam with
\* the old min and max (its __init__ raises TypeError on a value that is no
\* number), a Param otherwise; the others are passed on as they are; a name
\* of kwargs that no param has is not looked at
ParamSet_update(ps, kwargs, base) ==
    IF \E i \in 1..Len(ps.params) :
          /\ ~ps.params[i].fixed
          /\ ps.params[i].name \in DOMAIN kwargs
          /\ kwargs[ps.params[i].name].t # "num"
    THEN Raise("TypeError")
    ELSE Ok(ParamSet(
             [i \in 1..Len(ps.params) |->
                 LET p == ps.params[i]
                 IN IF p.name \in DOMAIN kwargs
                    THEN Made(IF ~p.fixed
                              THEN AjuParam(base + i, p.name, kwargs[p.name],
                                            p.min, p.max)
                              ELSE Param(base + i, p.name, kwargs[p.name]))
                    ELSE Made(p)],
             base))

\* the body of ParamSet.scaled_bounds with the bounds left unscaled
ParamSet_scaled_bounds_raw(ps) ==
    <<[i \in 1..Len(ps.ajuparams) |-> ps.ajuparams[i].min],
      [i \in 1..Len(ps.ajuparams) |-> ps.ajuparams[i].max]>>

\* the body of ParamSet.scaled_bounds
ParamSet_scaled_bounds(ps) ==
    <<[i \in 1..Len(ps.ajuparams) |->
          IF ps.ajuparams[i].min # NoneVal
          THEN AjuParam_scale(ps.ajuparams[i], ps.ajuparams[i].min) ELSE NoneVal],
      [i \in 1..Len(ps.ajuparams) |->
          IF ps.ajuparams[i].max # NoneVal
          THEN AjuParam_scale(ps.ajuparams[i], ps.ajuparams[i].max) ELSE NoneVal]>>

-----------------------------------------------------------------------------
(* Param, AjuParam, ParamSet: the ParamSet the Fit owns *)

RECURSIVE Pow10Floor(_)
\* 10**math.floor(math.log10(val)) for an integer val >= 1
Pow10Floor(val) == IF val < 10 THEN 1 ELSE 10 * Pow10Floor(val \div 10)

\* AjuParam.__init__: the scaling factor, for integer value, min and max
\* (None for an unset bound). abs(rr) <= 1 iff 0.1 <= |val| <= 10.
AjuScaling(value, min, max) ==
    LET val == IF value # 0 THEN value
               ELSE IF max # None /\ max # 0 THEN max
               ELSE IF min # None THEN min ELSE 0
    IN IF val = 0 \/ Abs(val) <= 10 THEN 1 ELSE Pow10Floor(Abs(val))

\* Fit.params: ParamSet(('gmax', 50, 0, 100), ('morph', 'file.p'))
FitAju == [name |-> "gmax", value |-> 50, min |-> 0, max |-> 100,
           scaling |-> AjuScaling(50, 0, 100)]
FitFixed == [name |-> "morph", value |-> "file.p"]

\* the scaled vectors: tuples of length len(ajuparams)
Vectors == {<<v>> : v \in 1..NVec}

\* ParamSet.unscaled_dict: the optimizable param unscaled (AjuParam.unscale),
\* then the fixed param with its stored value
unscaled_dict(scaled_values) ==
    [gmax |-> scaled_values[1] * FitAju.scaling, morph |-> FitFixed.value]

\* ParamSet.scale_dict then tuple(): AjuParam.scale of values['gmax'].  The
\* stored values are multiples of the scaling factor, so the quotient is exact.
scale_dict(values) == <<values.gmax \div FitAju.scaling>>

\* ParamSet.scaled of Fit.params: the value of the optimizable param, scaled
scaled == <<FitAju.value \div FitAju.scaling>>

\* ParamSet.scaled_bounds of Fit.params: min and max of the optimizable
\* param, scaled (both are multiples of the scaling factor)
scaled_bounds ==
    <<(<<FitAju.min \div FitAju.scaling>>), (<<FitAju.max \div FitAju.scaling>>)>>

\* AjuParam.valid on the unscaled value, which is the same test on the
\* scaled ones
InBounds(v) == scaled_bounds[1][1] <= v[1] /\ v[1] <= scaled_bounds[2][1]

\* the scaled vectors with one above the upper bound added to them
FullVectors == Vectors \cup {<<scaled_bounds[2][1] + 1>>}

\* the parameter dicts the simulations of earlier runs were made with
ParamDicts == {unscaled_dict(k) : k \in Vectors}

\* the parameter dict a caller constructs a Simulation of its own with
DirectParams == unscaled_dict(<<1>>)

-----------------------------------------------------------------------------
(* Sequences *)

Range(s) == {s[i] : i \in 1..Len(s)}

\* the orders in which glob can list the members of S
Listings(S) ==
    {s \in [1..Cardinality(S) -> S] : \A i, j \in 1..Cardinality(S) : s[i] = s[j] => i = j}

RECURSIVE InsertByMtime(_, _, _)
\* s with directory d inserted after the last one whose params.pickle is not newer
InsertByMtime(dk, s, d) ==
    IF s = <<>> THEN <<d>>
    ELSE IF dk[s[Len(s)]].mtime <= dk[d].mtime THEN Append(s, d)
    ELSE Append(InsertByMtime(dk, SubSeq(s, 1, Len(s) - 1), d), s[Len(s)])

RECURSIVE SortedByMtime(_, _)
\* sorted(dirs, key=compare): stable, ascending st_mtime of params.pickle
SortedByMtime(dk, s) ==
    IF s = <<>> THEN <<>>
    ELSE InsertByMtime(dk, SortedByMtime(dk, SubSeq(s, 1, Len(s) - 1)), s[Len(s)])

\* the Python slice s[-n:] for n >= 0: s[-0:] is s[0:], the whole list
SliceLast(s, n) ==
    IF n = 0 \/ n >= Len(s) THEN s ELSE SubSeq(s, Len(s) - n + 1, Len(s))

-----------------------------------------------------------------------------
(* The state after Fit.__init__, before any call *)

\* the driving thread between two calls
Idle == [pc |-> "idle", top |-> "none", op |-> "none", v |-> <<>>,
         points |-> <<>>, j |-> 0, vals |-> <<>>, count |-> 0, i |-> 0, s |-> 0,
         args |-> <<>>]

NoRet == [op |-> "none", key |-> <<>>, err |-> "none", val |-> <<>>]

\* self.optimizer = None; id counts the optimizers the Fit has made
NoOptimizer ==
    [made |-> FALSE, asked |-> FALSE, stop |-> FALSE, id |-> 0,
     x0 |-> <<>>, sigma |-> 0, popsize |-> 0, seed |-> 0, bounds |-> <<>>]

\* a finished call: what it was, the vector it was given, the exception it
\* raised ("none" when it returned) and the value it returned; NoRet while a
\* call is running
Ret(op, key, err, val) == [op |-> op, key |-> key, err |-> err, val |-> val]

\* a cache no call has filled yet
NoCache == [k \in {} |-> 0]

\* a directory a run of the program that ended before this one left complete:
\* params.pickle, the output of every condition, the .complete tag
PriorDir(params, mtime) ==
    [pickle |-> TRUE, params |-> params, files |-> {Currents[c] : c \in 1..NCond},
     marker |-> TRUE, mtime |-> mtime]

\* what Fit.dirname holds when the Fit is made: nothing, or the completed
\* simulations of earlier runs
PriorDisks ==
    UNION {[1..n -> ParamDicts] : n \in 0..MaxPrior}

\* a new Fit, before any call
FitFresh ==
    /\ sims = <<>>
    /\ exe = 0
    /\ sim_value = NoCache
    /\ fitness_value = NoCache
    /\ fitness_full_value = NoCache
    /\ history = <<>>
    /\ async_ = FALSE
    /\ fitness_worst = None
    /\ optimizer = NoOptimizer
    /\ main = Idle
    /\ ret = NoRet

Init ==
    /\ \E prior \in PriorDisks :
          disk = [d \in 1..Len(prior) |-> PriorDir(prior[d], d)]
    /\ FitFresh
    /\ aju = NoParam
    /\ psets = <<>>

-----------------------------------------------------------------------------
(* exe_map, Simulation *)

\* exe_map as execute_for uses it: the mapping function a Simulation runs its
\* conditions with.  "single" is the builtin map, which is lazy; "pool" is
\* Pool.map and "async" is Pool.map_async.
exe_map(single, async) ==
    IF async THEN "async"
    ELSE IF single THEN "single"
    ELSE "pool"

\* exe_map making a new pool on every request that is not single
exe_global_always(e, single, async) ==
    IF single /\ ~async THEN e ELSE e + 1

\* the global _exe after exe_map(single, async): lines 27-32
exe_global(e, single, async) ==
    IF single /\ ~async THEN e
    ELSE IF e = 0 THEN 1 ELSE e

\* the directory Simulation.__init__ creates: utilities.TemporaryDirectory,
\* then params.pickle
NewDir(dk, params) ==
    [pickle |-> TRUE, params |-> params, files |-> {}, marker |-> FALSE,
     mtime |-> Len(dk) + 1]

\* Simulation._set_result on the object: self.waves.  Pool.map and the
\* callback of map_async hand over the list of waveforms in the order of the
\* conditions; the builtin map hands over an iterator that np.array wraps
\* unconsumed, so that execute runs for no condition.
set_result_waves(sim) ==
    IF sim.mode = "single"
    THEN [sim EXCEPT !.wset = "lazy"]
    ELSE [sim EXCEPT !.wset = "array", !.waves = Currents]

\* Simulation._set_result on the directory: the .complete tag
set_result_tag(dir) == [dir EXCEPT !.marker = TRUE]

\* Simulation.__init__ with currents given: the new object and its directory.
\* In single mode execute_for has called _set_result before __init__ returns.
Simulation(params, single, async) ==
    LET mode == exe_map(single, async)
        obj == [dir |-> Len(disk) + 1, params |-> params, mode |-> mode,
                task |-> [c \in 1..NCond |-> "todo"],
                wset |-> "unset", waves |-> <<>>,
                result |-> IF mode = "async" THEN "pending" ELSE "none",
                waited |-> FALSE, raised |-> FALSE,
                pool |-> IF mode = "single" THEN 0
                         ELSE exe_global(exe, single, async)]
        dir == NewDir(disk, params)
    IN /\ sims' = Append(sims, IF mode = "single" THEN set_result_waves(obj) ELSE obj)
       /\ disk' = Append(disk, IF mode = "single" THEN set_result_tag(dir) ELSE dir)
       /\ exe' = exe_global(exe, single, async)

TasksDone(sim) == \A c \in 1..NCond : sim.task[c] # "todo"
TasksOk(sim) == \A c \in 1..NCond : sim.task[c] = "ok"

\* execute, in a worker of the pool, for condition c of Simulation s: the
\* subprocess runs and writes ivdata-<injection>.npy or does not;
\* load_simulation then returns the waveform or fails on the missing file.
execute(s, c) ==
    /\ s \in 1..Len(sims)
    /\ sims[s].mode \in {"pool", "async"}
    /\ sims[s].task[c] = "todo"
    /\ \E written \in BOOLEAN :
          /\ sims' = [sims EXCEPT ![s].task[c] = IF written THEN "ok" ELSE "err"]
          /\ disk' = [disk EXCEPT ![sims[s].dir].files =
                         IF written THEN @ \cup {Currents[c]} ELSE @]
    /\ UNCHANGED <<exe, sim_value, fitness_value, fitness_full_value, history,
                   async_, fitness_worst, optimizer, main, ret>>
    /\ UNCHANGED pvars

\* The result handler of the pool, for the map_async of Simulation s: once
\* every task has reported, the callback (_set_result) runs if all succeeded,
\* and the AsyncResult becomes ready either way.  No error_callback is given.
map_async_done(s) ==
    /\ s \in 1..Len(sims)
    /\ sims[s].mode = "async"
    /\ sims[s].result = "pending"
    /\ TasksDone(sims[s])
    /\ IF TasksOk(sims[s])
       THEN /\ sims' = [sims EXCEPT ![s] = [set_result_waves(@) EXCEPT !.result = "ready"]]
            /\ disk' = [disk EXCEPT ![sims[s].dir] = set_result_tag(@)]
       ELSE /\ sims' = [sims EXCEPT ![s].result = "ready"]
            /\ UNCHANGED disk
    /\ UNCHANGED <<exe, sim_value, fitness_value, fitness_full_value, history,
                   async_, fitness_worst, optimizer, main, ret>>
    /\ UNCHANGED pvars

\* Simulation.wait, called by the driving thread between two Fit calls:
\* returns once the AsyncResult is ready (at once when _result is None);
\* AsyncResult.wait raises nothing.
wait(s) ==
    /\ main.pc = "idle"
    /\ s \in 1..Len(sims)
    /\ sims[s].result # "pending"
    /\ ~sims[s].waited
    /\ sims' = [sims EXCEPT ![s].waited = TRUE]
    /\ ret' = Ret("wait", <<>>, "none", <<>>)
    /\ UNCHANGED <<disk, exe, sim_value, fitness_value, fitness_full_value,
                   history, async_, fitness_worst, optimizer, main>>
    /\ UNCHANGED pvars

-----------------------------------------------------------------------------
(* utilities.cached, as Fit.sim, Fit.fitness and Fit.fitness_full use it: a
   per-object mapping from tuple(argument) to the value the method returned;
   a call that raises stores nothing *)

Cached(cache, key) == key \in DOMAIN cache

Store(cache, key, val) ==
    [k \in DOMAIN cache \cup {key} |-> IF k = key THEN val ELSE cache[k]]

\* the entries of Fit._sim_value: a Simulation object, or the
\* SimulationResult Fit.load rebuilt from a directory
SimEntry(s) == [kind |-> "sim", id |-> s]
ResEntry(d) == [kind |-> "res", id |-> d]

\* the Simulation objects still to construct within MaxSims
Budget(n) == Len(sims) + n <= MaxSims

\* the vectors of points Fit.sim has no entry for
Uncached(points) == Range(points) \ DOMAIN sim_value

-----------------------------------------------------------------------------
(* Fit.sim *)

\* where the caller of Fit.sim goes on once it has returned
AfterSim(m) ==
    CASE m.op = "sim" -> Idle
      [] m.op \in {"fitness", "fitness_full"} -> [m EXCEPT !.pc = "score"]
      [] m.op = "fitness_multi" ->
            IF m.j < Len(m.points)
            THEN [m EXCEPT !.pc = "sim", !.j = m.j + 1, !.v = m.points[m.j + 1]]
            ELSE [m EXCEPT !.pc = "fm_wait", !.j = 1]

\* what a top-level Fit.sim call returns
AfterSimRet(m, entry) ==
    IF m.op = "sim" THEN Ret("sim", m.v, "none", <<entry>>) ELSE ret

\* Fit.sim(main.v), through its cache: a hit returns the entry; a miss
\* constructs Simulation(async=self._async, **unscaled).  The asynchronous
\* constructor returns at once and the object is stored; the synchronous one
\* (Pool.map) blocks the thread in "construct".
sim ==
    /\ main.pc = "sim"
    /\ IF Cached(sim_value, main.v)
       THEN /\ main' = AfterSim(main)
            /\ ret' = AfterSimRet(main, sim_value[main.v])
            /\ UNCHANGED <<disk, sims, exe, sim_value>>
       ELSE /\ Simulation(unscaled_dict(main.v), FALSE, async_)
            /\ IF async_
               THEN /\ sim_value' = Store(sim_value, main.v, SimEntry(Len(sims) + 1))
                    /\ main' = AfterSim(main)
                    /\ ret' = AfterSimRet(main, SimEntry(Len(sims) + 1))
               ELSE /\ main' = [main EXCEPT !.pc = "construct", !.s = Len(sims) + 1]
                    /\ UNCHANGED <<sim_value, ret>>
    /\ UNCHANGED <<fitness_value, fitness_full_value, history, async_,
                   fitness_worst, optimizer>>
    /\ UNCHANGED pvars

\* Pool.map returns in execute_for of Simulation main.s: every task has
\* finished.  All succeeded: _set_result, the constructor returns, and
\* Fit.sim (when it is the caller) stores the object.  One failed: the load
\* error is raised out of the constructor and the call that made it.
map_return ==
    /\ main.pc = "construct"
    /\ TasksDone(sims[main.s])
    /\ IF TasksOk(sims[main.s])
       THEN /\ sims' = [sims EXCEPT ![main.s] = set_result_waves(@)]
            /\ disk' = [disk EXCEPT ![sims[main.s].dir] = set_result_tag(@)]
            /\ IF main.op = "Simulation"
               THEN /\ main' = Idle
                    /\ ret' = Ret("Simulation", <<>>, "none", <<>>)
                    /\ UNCHANGED sim_value
               ELSE /\ sim_value' = Store(sim_value, main.v, SimEntry(main.s))
                    /\ main' = AfterSim(main)
                    /\ ret' = AfterSimRet(main, SimEntry(main.s))
       ELSE /\ sims' = [sims EXCEPT ![main.s].raised = TRUE]
            /\ main' = Idle
            /\ ret' = Ret(main.top, main.v, "FileNotFoundError", <<>>)
            /\ UNCHANGED <<disk, sim_value>>
    /\ UNCHANGED <<exe, fitness_value, fitness_full_value, history, async_,
                   fitness_worst, optimizer>>
    /\ UNCHANGED pvars

\* a caller constructs a Simulation on its own
NewSimulation(single, async) ==
    /\ main.pc = "idle"
    /\ Len(sims) < MaxDirect
    /\ Simulation(DirectParams, single, async)
    /\ IF exe_map(single, async) = "pool"
       THEN /\ main' = [Idle EXCEPT !.pc = "construct", !.top = "Simulation",
                                    !.op = "Simulation", !.s = Len(sims) + 1]
            /\ ret' = NoRet
       ELSE /\ ret' = Ret("Simulation", <<>>, "none", <<>>)
            /\ UNCHANGED main
    /\ UNCHANGED <<sim_value, fitness_value, fitness_full_value, history,
                   async_, fitness_worst, optimizer>>
    /\ UNCHANGED pvars

\* what a caller passes as simtime and as baseline: nothing (the default,
\* None) or a number
SimtimeArgs == {None, <<1>>}
BaselineArgs == {None, <<0>>}

\* Simulation.__init__ that tests simtime and baseline after the directory
\* and params.pickle are made
CallSimulation_late(simtime, baseline, single, async) ==
    IF simtime = None \/ baseline = None
    THEN /\ main.pc = "idle"
         /\ Len(sims) < MaxDirect
         /\ disk' = Append(disk, NewDir(disk, DirectParams))
         /\ ret' = Ret("Simulation", <<simtime, baseline>>, "ValueError", <<>>)
         /\ UNCHANGED <<sims, exe, sim_value, fitness_value, fitness_full_value,
                        history, async_, fitness_worst, optimizer, main>>
         /\ UNCHANGED pvars
    ELSE NewSimulation(single, async)

\* a caller constructs Simulation(dir, currents=..., simtime=simtime,
\* baseline=baseline, single=single, async=async): lines 87-90 raise
\* ValueError before anything else is done
CallSimulation(simtime, baseline, single, async) ==
    IF simtime = None \/ baseline = None
    THEN /\ main.pc = "idle"
         /\ ret' = Ret("Simulation", <<simtime, baseline>>, "ValueError", <<>>)
         /\ UNCHANGED <<disk, sims, exe, sim_value, fitness_value, fitness_full_value,
                        history, async_, fitness_worst, optimizer, main>>
         /\ UNCHANGED pvars
    ELSE NewSimulation(single, async)

\* a caller calls Fit.sim(v)
CallSim(v) ==
    /\ main.pc = "idle"
    /\ Budget(1) \/ Cached(sim_value, v)
    /\ main' = [Idle EXCEPT !.pc = "sim", !.top = "sim", !.op = "sim", !.v = v]
    /\ ret' = NoRet
    /\ UNCHANGED <<disk, sims, exe, sim_value, fitness_value, fitness_full_value,
                   history, async_, fitness_worst, optimizer>>
    /\ UNCHANGED pvars

-----------------------------------------------------------------------------
(* Fit.sim_fitness, Fit.fitness, Fit.fitness_full *)

\* whether the fitness function can read the waveforms of a cache entry: a
\* Simulation has none before _set_result has run with the list of waveforms
CanScore(entry) == entry.kind = "res" \/ sims[entry.id].wset = "array"

\* sim_fitness without the loop of lines 402-404
CapFitness_none(fitness, max_fitness) == fitness

\* sim_fitness, lines 401-404: the components above max_fitness are set to it
\* (a NaN compares False and stays)
CapFitness(fitness, max_fitness) ==
    [n \in 1..Len(fitness) |->
        IF fitness[n] # NaN /\ fitness[n] > max_fitness THEN max_fitness ELSE fitness[n]]

\* ans[np.isnan(ans)] = self.fitness_max
ReplaceNaN(ans) ==
    [n \in 1..Len(ans) |-> IF ans[n] = NaN THEN fitness_max ELSE ans[n]]

\* lines 428-432: the first vector is kept as it is, then the components
\* that the new vector exceeds are overwritten
UpdateWorst(worst, ans) ==
    IF worst = None THEN ans
    ELSE [n \in 1..Len(ans) |-> IF worst[n] < ans[n] THEN ans[n] ELSE worst[n]]

Negated(ans) == [n \in 1..Len(ans) |-> -ans[n]]

\* Fit.fitness without its cache: every call goes on to Fit.sim
fitness_uncached(v) ==
    /\ main.pc = "idle"
    /\ Budget(1) \/ Cached(sim_value, v)
    /\ main' = [Idle EXCEPT !.pc = "sim", !.top = "fitness", !.op = "fitness", !.v = v]
    /\ ret' = NoRet
    /\ UNCHANGED <<disk, sims, exe, sim_value, fitness_value, fitness_full_value,
                   history, async_, fitness_worst, optimizer>>
    /\ UNCHANGED pvars

\* a caller calls Fit.fitness(v): a hit of its cache returns the value
\* stored; a miss goes on to Fit.sim
fitness(v) ==
    /\ main.pc = "idle"
    /\ IF Cached(fitness_value, v)
       THEN /\ ret' = Ret("fitness", v, "none", <<fitness_value[v]>>)
            /\ UNCHANGED main
       ELSE /\ Budget(1) \/ Cached(sim_value, v)
            /\ main' = [Idle EXCEPT !.pc = "sim", !.top = "fitness",
                                    !.op = "fitness", !.v = v]
            /\ ret' = NoRet
    /\ UNCHANGED <<disk, sims, exe, sim_value, fitness_value, fitness_full_value,
                   history, async_, fitness_worst, optimizer>>
    /\ UNCHANGED pvars

\* Fit.fitness_full as it would go on were penalty defined and None for v
fitness_full_penalty_none(v) ==
    /\ main.pc = "idle"
    /\ IF Cached(fitness_full_value, v)
       THEN /\ ret' = Ret("fitness_full", v, "none", fitness_full_value[v])
            /\ UNCHANGED main
       ELSE /\ Budget(1) \/ Cached(sim_value, v)
            /\ main' = [Idle EXCEPT !.pc = "sim", !.top = "fitness_full",
                                    !.op = "fitness_full", !.v = v]
            /\ ret' = NoRet
    /\ UNCHANGED <<disk, sims, exe, sim_value, fitness_value, fitness_full_value,
                   history, async_, fitness_worst, optimizer>>
    /\ UNCHANGED pvars

\* a caller calls Fit.fitness_full(v): a hit of its cache returns the value
\* stored.  On a miss with a worst fitness recorded, line 420 calls penalty,
\* a name the module neither defines nor imports, with self.bounds, an
\* attribute no Fit has: the call raises NameError.  Else on to Fit.sim.
fitness_full(v) ==
    /\ main.pc = "idle"
    /\ IF Cached(fitness_full_value, v)
       THEN /\ ret' = Ret("fitness_full", v, "none", fitness_full_value[v])
            /\ UNCHANGED main
       ELSE IF fitness_worst # None
       THEN /\ ret' = Ret("fitness_full", v, "NameError", <<>>)
            /\ UNCHANGED main
       ELSE /\ Budget(1) \/ Cached(sim_value, v)
            /\ main' = [Idle EXCEPT !.pc = "sim", !.top = "fitness_full",
                                    !.op = "fitness_full", !.v = v]
            /\ ret' = NoRet
    /\ UNCHANGED <<disk, sims, exe, sim_value, fitness_value, fitness_full_value,
                   history, async_, fitness_worst, optimizer>>
    /\ UNCHANGED pvars

\* Fit.fitness and Fit.fitness_full after self.sim returned: sim_fitness
\* applies the fitness function to the simulation, which raises when it has
\* no waveforms; else the value is appended to the history, stored in the
\* cache of the method and returned.  fitness_full appends the array it goes
\* on to change in place, so the history holds it with NaN replaced; the
\* first such array becomes self._fitness_worst, the same object, so that the
\* update of lines 431-432 writes into that entry of the history.
score ==
    /\ main.pc = "score"
    /\ IF ~CanScore(sim_value[main.v])
       THEN /\ ret' = Ret(main.top, main.v, "AttributeError", <<>>)
            /\ UNCHANGED <<fitness_value, fitness_full_value, history, fitness_worst>>
       ELSE IF main.op = "fitness"
       THEN \E f \in FitVals :
               /\ history' = Append(history, f)
               /\ fitness_value' = Store(fitness_value, main.v, f)
               /\ ret' = Ret("fitness", main.v, "none", <<f>>)
               /\ UNCHANGED <<fitness_full_value, fitness_worst>>
       ELSE \E f \in FullVecs :
               LET ans == ReplaceNaN(CapFitness(f, full_max_fitness))
               IN /\ IF fitness_worst = None
                     THEN /\ history' = Append(history, ans)
                          /\ fitness_worst' = <<Len(history) + 1>>
                     ELSE /\ history' =
                                Append([history EXCEPT ![fitness_worst[1]] =
                                           UpdateWorst(@, ans)], ans)
                          /\ UNCHANGED fitness_worst
                  /\ fitness_full_value' = Store(fitness_full_value, main.v, Negated(ans))
                  /\ ret' = Ret("fitness_full", main.v, "none", Negated(ans))
                  /\ UNCHANGED fitness_value
    /\ main' = Idle
    /\ UNCHANGED <<disk, sims, exe, sim_value, async_, optimizer>>
    /\ UNCHANGED pvars

-----------------------------------------------------------------------------
(* Fit.fitness_multi *)

\* the batches of vectors a caller or ask() hands to fitness_multi
Points == [1..PopSize -> Vectors]

\* line 437, then the first self.sim of line 438
EnterMulti(m, points) ==
    [m EXCEPT !.pc = "sim", !.op = "fitness_multi", !.points = points,
              !.j = 1, !.v = points[1], !.vals = <<>>]

\* a caller calls Fit.fitness_multi(points)
fitness_multi(points) ==
    /\ main.pc = "idle"
    /\ Budget(Cardinality(Uncached(points)))
    /\ async_' = TRUE
    /\ main' = EnterMulti([Idle EXCEPT !.top = "fitness_multi"], points)
    /\ ret' = NoRet
    /\ UNCHANGED <<disk, sims, exe, sim_value, fitness_value, fitness_full_value,
                   history, fitness_worst, optimizer>>
    /\ UNCHANGED pvars

\* lines 439-440: sim.wait() for the simulation of points[j]; blocks until
\* its AsyncResult is ready.  A synchronous Simulation has _result None and
\* SimulationResult.wait does nothing.
multi_wait ==
    /\ main.pc = "fm_wait"
    /\ LET e == sim_value[main.points[main.j]]
       IN IF e.kind = "sim"
          THEN /\ sims[e.id].result # "pending"
               /\ sims' = [sims EXCEPT ![e.id].waited = TRUE]
          ELSE UNCHANGED sims
    /\ main' = IF main.j < Len(main.points)
               THEN [main EXCEPT !.j = main.j + 1]
               ELSE [main EXCEPT !.pc = "fm_fit", !.j = 1]
    /\ UNCHANGED <<disk, exe, sim_value, fitness_value, fitness_full_value,
                   history, async_, fitness_worst, optimizer, ret>>
    /\ UNCHANGED pvars

\* fitness_multi collecting the values last first
AfterFitness_reversed(m, f) ==
    IF m.j < Len(m.points)
    THEN [m EXCEPT !.j = m.j + 1, !.vals = <<f>> \o m.vals]
    ELSE IF m.top = "do_fit"
    THEN [m EXCEPT !.pc = "tell", !.vals = <<f>> \o m.vals]
    ELSE Idle

\* where fitness_multi goes on after self.fitness(points[j]) returned
AfterFitness(m, f) ==
    IF m.j < Len(m.points)
    THEN [m EXCEPT !.j = m.j + 1, !.vals = Append(m.vals, f)]
    ELSE IF m.top = "do_fit"
    THEN [m EXCEPT !.pc = "tell", !.vals = Append(m.vals, f)]
    ELSE Idle

\* line 441: self.fitness(points[j]).  A hit of the cache of Fit.fitness
\* gives the value; a miss takes the simulation from the cache of Fit.sim and
\* scores it as Fit.fitness does, raising out of fitness_multi (and do_fit)
\* when it has no waveforms.  fitness_multi returns the list after the last.
multi_fitness ==
    /\ main.pc = "fm_fit"
    /\ LET v == main.points[main.j]
           done(f) == /\ main' = AfterFitness(main, f)
                      /\ ret' = IF main.j = Len(main.points) /\ main.top = "fitness_multi"
                                THEN Ret("fitness_multi", <<>>, "none", Append(main.vals, f))
                                ELSE ret
       IN IF Cached(fitness_value, v)
          THEN /\ done(fitness_value[v])
               /\ UNCHANGED <<fitness_value, history>>
          ELSE IF ~CanScore(sim_value[v])
          THEN /\ main' = Idle
               /\ ret' = Ret(main.top, v, "AttributeError", <<>>)
               /\ UNCHANGED <<fitness_value, history>>
          ELSE \E f \in FitVals :
                  /\ history' = Append(history, f)
                  /\ fitness_value' = Store(fitness_value, v, f)
                  /\ done(f)
    /\ UNCHANGED <<disk, sims, exe, sim_value, fitness_full_value, async_,
                   fitness_worst, optimizer>>
    /\ UNCHANGED pvars

-----------------------------------------------------------------------------
(* Fit.do_fit and the optimizer (cma.CMAEvolutionStrategy) *)

\* cma.CMAEvolutionStrategy(x0, sigma, opts), the id-th optimizer of the Fit,
\* as do_fit sees it: what it was configured with; asked says that the points
\* of an ask() have not been told back yet, stop is what stop() answers
NewOptimizer(id, x0, sigma, opts) ==
    [made |-> TRUE, asked |-> FALSE, stop |-> FALSE, id |-> id,
     x0 |-> x0, sigma |-> sigma, popsize |-> opts.popsize, seed |-> opts.seed,
     bounds |-> opts.bounds]

\* the arguments of do_fit after count
DoFitArgs(params, sigma, popsize, seed) ==
    [params |-> params, sigma |-> sigma, popsize |-> popsize, seed |-> seed]

\* the defaults of do_fit, the population of PopSize standing for that of 8
DoFitDefaults == DoFitArgs(None, 1, PopSize, 123)

\* lines 461-466 making an optimizer in every call
do_fit_optimizer_renew(opt, args) ==
    NewOptimizer(opt.id + 1,
                 IF args.params = None THEN scaled ELSE args.params,
                 args.sigma,
                 [bounds |-> scaled_bounds, popsize |-> args.popsize, seed |-> 123])

\* lines 461-466: self.optimizer after them.  An optimizer is made only
\* when the Fit has none, from params (the scaled vector of the ParamSet
\* when None), sigma and popsize, with the scaled bounds of the ParamSet and
\* the seed 123
do_fit_optimizer(opt, args) ==
    IF opt.made THEN opt
    ELSE NewOptimizer(opt.id + 1,
                      IF args.params = None THEN scaled ELSE args.params,
                      args.sigma,
                      [bounds |-> scaled_bounds, popsize |-> args.popsize, seed |-> 123])

\* a caller calls Fit.do_fit(count, params, sigma, popsize, seed)
do_fit(count, params, sigma, popsize, seed) ==
    /\ main.pc = "idle"
    /\ Budget(1) \/ DOMAIN sim_value # {}
    /\ optimizer' = do_fit_optimizer(optimizer, DoFitArgs(params, sigma, popsize, seed))
    /\ main' = [Idle EXCEPT !.pc = "loop", !.top = "do_fit", !.op = "do_fit",
                            !.count = count, !.i = 0,
                            !.args = DoFitArgs(params, sigma, popsize, seed)]
    /\ ret' = NoRet
    /\ UNCHANGED <<disk, sims, exe, sim_value, fitness_value, fitness_full_value,
                   history, async_, fitness_worst>>
    /\ UNCHANGED pvars

\* the lists of points ask() can give: as many as the population
AskPoints(opt) == [1..opt.popsize -> Vectors]

\* the head of the loop without the test of stop()
do_fit_loop_nostop ==
    /\ main.pc = "loop"
    /\ IF main.i >= main.count
       THEN /\ main' = Idle
            /\ ret' = Ret("do_fit", <<>>, "none", <<>>)
            /\ UNCHANGED <<optimizer, async_>>
       ELSE \E points \in AskPoints(optimizer) :
               /\ Budget(Cardinality(Uncached(points)))
               /\ optimizer' = [optimizer EXCEPT !.asked = TRUE]
               /\ async_' = TRUE
               /\ main' = EnterMulti(main, points)
               /\ UNCHANGED ret
    /\ UNCHANGED <<disk, sims, exe, sim_value, fitness_value, fitness_full_value,
                   history, fitness_worst>>
    /\ UNCHANGED pvars

\* lines 468-472: the head of the loop.  After count rounds, or when stop()
\* answers true, do_fit returns; else ask() gives the points and
\* fitness_multi is entered with them.
do_fit_loop ==
    /\ main.pc = "loop"
    /\ IF main.i >= main.count \/ optimizer.stop
       THEN /\ main' = Idle
            /\ ret' = Ret("do_fit", <<>>, "none", <<>>)
            /\ UNCHANGED <<optimizer, async_>>
       ELSE \E points \in AskPoints(optimizer) :
               /\ Budget(Cardinality(Uncached(points)))
               /\ optimizer' = [optimizer EXCEPT !.asked = TRUE]
               /\ async_' = TRUE
               /\ main' = EnterMulti(main, points)
               /\ UNCHANGED ret
    /\ UNCHANGED <<disk, sims, exe, sim_value, fitness_value, fitness_full_value,
                   history, fitness_worst>>
    /\ UNCHANGED pvars

\* lines 473-475: tell(points, values); the optimizer advances, and its stop
\* predicate may hold from now on
do_fit_tell ==
    /\ main.pc = "tell"
    /\ \E stop \in BOOLEAN :
          optimizer' = [optimizer EXCEPT !.asked = FALSE, !.stop = stop]
    /\ main' = [main EXCEPT !.pc = "loop", !.op = "do_fit", !.i = main.i + 1,
                            !.points = <<>>, !.vals = <<>>, !.j = 0, !.v = <<>>]
    /\ UNCHANGED <<disk, sims, exe, sim_value, fitness_value, fitness_full_value,
                   history, async_, fitness_worst, ret>>
    /\ UNCHANGED pvars

-----------------------------------------------------------------------------
(* iv_filename, iv_filename_to_current, SimulationResult *)

\* a str as the sequence of its characters
Prefix == <<"i", "v", "d", "a", "t", "a", "-">>
Suffix == <<".", "n", "p", "y">>

Digit(n) == <<"0", "1", "2", "3", "4", "5", "6", "7", "8", "9">>[n + 1]
DigitValue(ch) == CHOOSE n \in 0..9 : Digit(n) = ch

RECURSIVE Decimal(_)
\* the decimal digits of n >= 0
Decimal(n) == IF n < 10 THEN <<Digit(n)>> ELSE Append(Decimal(n \div 10), Digit(n % 10))

\* '{}'.format(n) for an int n
Format(n) == IF n < 0 THEN <<"-">> \o Decimal(-n) ELSE Decimal(n)

RECURSIVE ParseDecimal(_)
ParseDecimal(s) ==
    IF s = <<>> THEN 0
    ELSE 10 * ParseDecimal(SubSeq(s, 1, Len(s) - 1)) + DigitValue(s[Len(s)])

\* float(s) for the str of an int
Float(s) == IF s[1] = "-" THEN -ParseDecimal(Tail(s)) ELSE ParseDecimal(s)

\* iv_filename: 'ivdata-{}.npy'.format(injection_current)
iv_filename(injection_current) == Prefix \o Format(injection_current) \o Suffix

\* iv_filename_to_current: float(name[7:-4])
iv_filename_to_current(ivfile) == Float(SubSeq(ivfile, 8, Len(ivfile) - 4))

\* glob.glob(os.path.join(dirname, 'ivdata-*.npy')): the names of the output
\* files in the directory, the file of a condition being iv_filename of it
ivfiles(dir) == {iv_filename(c) : c \in dir.files}

RECURSIVE SortAscending(_)
\* the members of a set of numbers in ascending order
SortAscending(S) ==
    IF S = {} THEN <<>>
    ELSE LET least == CHOOSE x \in S : \A y \in S : x <= y
         IN <<least>> \o SortAscending(S \ {least})

\* SimulationResult.__init__ on directory d: the params unpickled, and one
\* waveform per file glob lists, tagged with the injection its name gives,
\* sorted by it
SimulationResult(dk, d) ==
    [name |-> d,
     params |-> dk[d].params,
     waves |-> SortAscending({iv_filename_to_current(f) : f \in ivfiles(dk[d])})]

\* a caller constructs SimulationResult(dirname, features) on directory d
NewSimulationResult(d) ==
    /\ main.pc = "idle"
    /\ d \in 1..Len(disk)
    /\ ret' = Ret("SimulationResult", <<d>>, "none", <<SimulationResult(disk, d)>>)
    /\ UNCHANGED <<disk, sims, exe, sim_value, fitness_value, fitness_full_value,
                   history, async_, fitness_worst, optimizer, main>>
    /\ UNCHANGED pvars

-----------------------------------------------------------------------------
(* SimulationResults, Fit.load *)

\* the directories glob finds a .complete tag in
Complete(dk) == {d \in 1..Len(dk) : dk[d].marker}

\* _dirs without its sort: the directories in the order glob listed them
dirs_unsorted(dk, listing, last) ==
    IF last = NoLast THEN listing ELSE SliceLast(listing, last)

\* SimulationResults._dirs, given the order glob listed the paths in
dirs(dk, listing, last) ==
    LET ans == SortedByMtime(dk, listing)
    IN IF last = NoLast THEN ans ELSE SliceLast(ans, last)

\* SimulationResults.load: the triples the generator yields
results_load(dk, listing, last) ==
    LET ds == dirs(dk, listing, last)
    IN [n \in 1..Len(ds) |-> <<n - 1, Len(ds), ds[n]>>]

\* a caller lists SimulationResults(dirname, features).load(last)
ResultsLoad(last) ==
    /\ main.pc = "idle"
    /\ \E listing \in Listings(Complete(disk)) :
          ret' = Ret("results_load", <<last>>, "none", results_load(disk, listing, last))
    /\ UNCHANGED <<disk, sims, exe, sim_value, fitness_value, fitness_full_value,
                   history, async_, fitness_worst, optimizer, main>>
    /\ UNCHANGED pvars

RECURSIVE LoadInto_overwrite(_, _, _)
\* the loop of Fit.load without the test of line 371
LoadInto_overwrite(cache, dk, yielded) ==
    IF yielded = <<>> THEN cache
    ELSE LET d == Head(yielded)[3]
         IN LoadInto_overwrite(Store(cache, scale_dict(dk[d].params), ResEntry(d)),
                               dk, Tail(yielded))

\* Fit.load starting from a new OrderedDict on every call
load_fresh(last) ==
    /\ main.pc = "idle"
    /\ \E listing \in Listings(Complete(disk)) :
          sim_value' = LoadInto_overwrite(NoCache, disk, results_load(disk, listing, last))
    /\ ret' = Ret("load", <<last>>, "none", <<>>)
    /\ UNCHANGED <<disk, sims, exe, fitness_value, fitness_full_value,
                   history, async_, fitness_worst, optimizer, main>>
    /\ UNCHANGED pvars

RECURSIVE LoadInto(_, _, _)
\* lines 367-374 over the yielded triples: a result is stored under the key
\* its params scale to unless the cache has that key
LoadInto(cache, dk, yielded) ==
    IF yielded = <<>> THEN cache
    ELSE LET d == Head(yielded)[3]
             key == scale_dict(dk[d].params)
         IN LoadInto(IF Cached(cache, key) THEN cache ELSE Store(cache, key, ResEntry(d)),
                     dk, Tail(yielded))

\* a caller calls Fit.load(last)
load(last) ==
    /\ main.pc = "idle"
    /\ \E listing \in Listings(Complete(disk)) :
          sim_value' = LoadInto(sim_value, disk, results_load(disk, listing, last))
    /\ ret' = Ret("load", <<last>>, "none", <<>>)
    /\ UNCHANGED <<disk, sims, exe, fitness_value, fitness_full_value,
                   history, async_, fitness_worst, optimizer, main>>
    /\ UNCHANGED pvars

-----------------------------------------------------------------------------
(* The system *)

\* the steps of the workers and the result handler of the pool
Pool ==
    \/ \E s \in 1..Len(sims), c \in 1..NCond : execute(s, c)
    \/ \E s \in 1..Len(sims) : map_async_done(s)

\* the steps by which the driving thread goes on in a call of sim, fitness,
\* fitness_full or fitness_multi
Driver ==
    \/ sim
    \/ map_return
    \/ score
    \/ multi_wait
    \/ multi_fitness

\* the evaluations a caller asks a fresh Fit for
Calls ==
    \/ \E v \in Vectors : CallSim(v)
    \/ \E v \in Vectors : fitness(v)
    \/ \E v \in Vectors : fitness_full(v)
    \/ \E points \in Points : fitness_multi(points)

EmptyInit == Init /\ disk = <<>>

Next == Pool \/ Driver \/ Calls

\* a Fit in an empty directory and the evaluations asked of it
Spec == EmptyInit /\ [][Next]_vars

\* the steps of the driving thread in do_fit
FitDriver ==
    \/ Driver
    \/ do_fit_loop
    \/ do_fit_tell

FitCalls ==
    \/ \E count \in 0..MaxCount :
          do_fit(count, DoFitDefaults.params, DoFitDefaults.sigma,
                 DoFitDefaults.popsize, DoFitDefaults.seed)
    \/ \E v \in Vectors : fitness(v)

FitNext == Pool \/ FitDriver \/ FitCalls

\* a Fit in an empty directory driven by do_fit
FitSpec == EmptyInit /\ [][FitNext]_vars

\* the workers run every task handed to the pool to its end, and the driving
\* thread goes on whenever it can
FairFitSpec == FitSpec /\ WF_vars(Pool \/ FitDriver)

\* the arguments callers pass to do_fit after count: the defaults, and each
\* of params, sigma, popsize and seed given another value
DoFitCalls ==
    {DoFitDefaults,
     [DoFitDefaults EXCEPT !.params = <<2>>],
     [DoFitDefaults EXCEPT !.sigma = 2],
     [DoFitDefaults EXCEPT !.popsize = 1],
     [DoFitDefaults EXCEPT !.seed = 7]}

OptCalls ==
    \E count \in 0..MaxCount, args \in DoFitCalls :
       do_fit(count, args.params, args.sigma, args.popsize, args.seed)

\* the steps of the driving thread in do_fit, which evaluates every point
\* through fitness_multi
OptDriver ==
    \/ sim
    \/ multi_wait
    \/ multi_fitness
    \/ do_fit_loop
    \/ do_fit_tell

OptNext == Pool \/ OptDriver \/ OptCalls

\* a Fit in an empty directory driven by do_fit calls of any arguments
OptSpec == EmptyInit /\ [][OptNext]_vars

LoadCalls ==
    \/ \E last \in Lasts : load(last)
    \/ \E v \in Vectors : CallSim(v)
    \/ \E v \in Vectors : fitness(v)

LoadNext ==
    \/ \E s \in 1..Len(sims), c \in 1..NCond : execute(s, c)
    \/ sim
    \/ map_return
    \/ score
    \/ LoadCalls

\* a Fit made in the directory of earlier runs, resumed with load
LoadSpec == Init /\ [][LoadNext]_vars

\* every operation of Fit that reads or fills the cache of simulations
CacheCalls ==
    \/ \E v \in Vectors : fitness(v)
    \/ \E v \in Vectors : fitness_full(v)
    \/ \E points \in Points : fitness_multi(points)
    \/ \E last \in Lasts : load(last)
    \/ \E count \in 0..MaxCount :
          do_fit(count, DoFitDefaults.params, DoFitDefaults.sigma,
                 DoFitDefaults.popsize, DoFitDefaults.seed)

CacheNext == Pool \/ FitDriver \/ CacheCalls

\* a Fit made in a directory that holds one completed simulation of an
\* earlier run
CacheInit == Init /\ disk = <<PriorDir(unscaled_dict(<<1>>), 1)>>

\* the Fit resumed in that directory and every operation on it
CacheSpec == CacheInit /\ [][CacheNext]_vars

\* fitness_full and the calls around it, with a vector outside the bounds
FullCalls ==
    \/ \E v \in FullVectors : fitness_full(v)
    \/ \E v \in Vectors : fitness(v)
    \/ \E points \in Points : fitness_multi(points)
    \/ \E last \in Lasts : load(last)

FullNext == Pool \/ Driver \/ FullCalls

FullSpec == EmptyInit /\ [][FullNext]_vars

\* a call of scale or unscale and the argument it was given
Call(op, arg) == [op |-> op, arg |-> arg]

\* what a call that computed x returned or raised; key is the chain of the
\* calls that fed it, the call itself last
Returns(op, key, x) ==
    IF x.t = "err" THEN Ret(op, key, x.s, <<>>) ELSE Ret(op, key, "none", <<x>>)

\* the value, min and max callers make an AjuParam with
AjuValues ==
    {PyInt(0), Num(1, -MinExp), Num(1, -1), PyInt(7), PyInt(50), PyInt(-20)}
AjuLimits == {NoneVal, PyInt(0), PyInt(100), PyInt(-20)}

\* the numbers callers pass to scale and unscale
ScaleInputs == {PyInt(0), Num(1, -1), PyInt(3), PyInt(7)}

\* the arguments of the next call of scale or unscale, each with the chain
\* of calls behind it: a number of the caller's, or what the call before
\* returned
ChainArgs ==
    {<<<<>>, v>> : v \in ScaleInputs} \cup
    (IF ret.op \in {"scale", "unscale"} /\ ret.err = "none" /\ Len(ret.key) < MaxChain
     THEN {<<ret.key, ret.val[1]>>} ELSE {})

\* a caller calls aju.scale(val)
aju_scale ==
    /\ \E a \in ChainArgs :
          ret' = Returns("scale", Append(a[1], Call("scale", a[2])),
                         AjuParam_scale(aju, a[2]))
    /\ UNCHANGED <<fitvars, pvars>>

\* a caller calls aju.unscale(val)
aju_unscale ==
    /\ \E a \in ChainArgs :
          ret' = Returns("unscale", Append(a[1], Call("unscale", a[2])),
                         AjuParam_unscale(aju, a[2]))
    /\ UNCHANGED <<fitvars, pvars>>

\* a caller reads aju.scaled
aju_scaled ==
    /\ ret' = Returns("scaled", <<>>, AjuParam_scaled(aju))
    /\ UNCHANGED <<fitvars, pvars>>

\* one AjuParam, made with any of the values and bounds
AjuInit ==
    /\ disk = <<>>
    /\ FitFresh
    /\ psets = <<>>
    /\ \E value \in AjuValues, min, max \in AjuLimits :
          aju = AjuParam(1, "gmax", value, min, max)

AjuNext == aju_scale \/ aju_unscale \/ aju_scaled

AjuSpec == AjuInit /\ [][AjuNext]_vars

\* the tuples callers make a ParamSet of
ArgTuples ==
    {Tuple("gmax", PyInt(50), <<PyInt(0), PyInt(100)>>),
     Tuple("morph", Str("file.p"), <<>>),
     Tuple("gmax", PyInt(7), <<Str("fixed")>>),
     Tuple("morph", PyInt(3), <<>>)}
ArgLists == UNION {[1..n -> ArgTuples] : n \in 0..MaxParams}

\* the keyword arguments callers pass to update
Kwargs ==
    UNION {[S -> {PyInt(7), Str("x")}] : S \in SUBSET {"gmax", "morph", "nosuch"}}

\* the values callers pass to scale, unscale and unscaled_dict
ValueLists == UNION {[1..n -> {PyInt(3), PyInt(5)}] : n \in 0..MaxValues}
Values == {List(v) : v \in ValueLists} \cup {Gen(v) : v \in ValueLists}

\* the mappings callers pass to scale_dict
Mappings == UNION {[S -> {PyInt(50)}] : S \in SUBSET {"gmax", "morph"}}

\* the ParamSet a call was made on and the argument it was given
Key(s, arg) == [s |-> s, arg |-> arg]

\* a caller calls psets[s].update(**kwargs)
pset_update(s, kwargs) ==
    /\ Len(psets) < MaxPsets
    /\ LET r == ParamSet_update(psets[s], kwargs, MaxParams * Len(psets))
       IN IF r.err = "none"
          THEN /\ psets' = Append(psets, r.val[1])
               /\ ret' = Ret("update", Key(s, kwargs), "none", <<Len(psets) + 1>>)
          ELSE /\ ret' = Ret("update", Key(s, kwargs), r.err, <<>>)
               /\ UNCHANGED psets
    /\ UNCHANGED <<fitvars, aju>>

\* a caller calls psets[s].scale(values)
pset_scale(s, values) ==
    /\ LET r == ParamSet_scale(psets[s], values)
       IN ret' = Ret("scale", Key(s, values), r.err, r.val)
    /\ UNCHANGED <<fitvars, pvars>>

\* a caller calls psets[s].scale_dict(values)
pset_scale_dict(s, values) ==
    /\ LET r == ParamSet_scale_dict(psets[s], values)
       IN ret' = Ret("scale_dict", Key(s, values), r.err, r.val)
    /\ UNCHANGED <<fitvars, pvars>>

\* a caller reads psets[s].scaled
pset_scaled(s) ==
    /\ LET r == ParamSet_scaled(psets[s])
       IN ret' = Ret("scaled", Key(s, <<>>), r.err, r.val)
    /\ UNCHANGED <<fitvars, pvars>>

\* a caller calls psets[s].unscale(scaled_values)
pset_unscale(s, scaled_values) ==
    /\ LET r == ParamSet_unscale(psets[s], scaled_values)
       IN ret' = Ret("unscale", Key(s, scaled_values), r.err, r.val)
    /\ UNCHANGED <<fitvars, pvars>>

\* a caller calls psets[s].unscaled_dict(scaled_values)
pset_unscaled_dict(s, scaled_values) ==
    /\ LET r == ParamSet_unscaled_dict(psets[s], scaled_values)
       IN ret' = Ret("unscaled_dict", Key(s, scaled_values), r.err, r.val)
    /\ UNCHANGED <<fitvars, pvars>>

\* utilities.once on a property of the object obj: the body runs on the first
\* read and the object keeps its value; later reads hand out what it kept
OnceValue(obj, body) == IF obj.once = <<>> THEN body ELSE obj.once[1]
OnceObject(obj, body) ==
    IF obj.once = <<>>
    THEN [obj EXCEPT !.once = <<body>>, !.computed = @ + 1]
    ELSE obj

\* a caller reads psets[s].scaled_bounds
pset_scaled_bounds(s) ==
    /\ ret' = Ret("scaled_bounds", Key(s, <<>>), "none",
                  <<OnceValue(psets[s], ParamSet_scaled_bounds(psets[s]))>>)
    /\ psets' = [psets EXCEPT ![s] = OnceObject(@, ParamSet_scaled_bounds(psets[s]))]
    /\ UNCHANGED <<fitvars, aju>>

\* the values a caller has at hand for unscale and unscaled_dict: its own,
\* and the list psets[s].scaled returns
ScaledValues(s) ==
    Values \cup (IF ParamSet_scaled(psets[s]).err = "none"
                 THEN {List(ParamSet_scaled(psets[s]).val[1])} ELSE {})

\* one ParamSet, made of any of the tuples
ParamInit ==
    /\ disk = <<>>
    /\ FitFresh
    /\ aju = NoParam
    /\ \E args \in ArgLists : psets = <<ParamSet(args, 0)>>

\* the ParamSet objects made so far
Psets == 1..Len(psets)

ParamNext ==
    \/ \E s \in Psets, kwargs \in Kwargs : pset_update(s, kwargs)
    \/ \E s \in Psets, values \in Values : pset_scale(s, values)
    \/ \E s \in Psets, values \in Mappings : pset_scale_dict(s, values)
    \/ \E s \in Psets : pset_scaled(s)
    \/ \E s \in Psets : \E scaled_values \in ScaledValues(s) :
          pset_unscale(s, scaled_values)
    \/ \E s \in Psets : \E scaled_values \in ScaledValues(s) :
          pset_unscaled_dict(s, scaled_values)
    \/ \E s \in Psets : pset_scaled_bounds(s)

ParamSpec == ParamInit /\ [][ParamNext]_vars

SimCalls ==
    \/ \E single, async \in BOOLEAN : NewSimulation(single, async)
    \/ \E s \in 1..Len(sims) : wait(s)
    \/ \E last \in Lasts : ResultsLoad(last)
    \/ \E d \in 1..Len(disk) : NewSimulationResult(d)

SimNext == Pool \/ map_return \/ SimCalls

\* the dispatcher and the recovery of its directories, without a Fit
SimSpec == EmptyInit /\ [][SimNext]_vars

CtorCalls ==
    \/ \E simtime \in SimtimeArgs, baseline \in BaselineArgs, single, async \in BOOLEAN :
          CallSimulation(simtime, baseline, single, async)
    \/ \E s \in 1..Len(sims) : wait(s)

CtorNext == Pool \/ map_return \/ CtorCalls

\* the constructor of Simulation with and without its required arguments
CtorSpec == EmptyInit /\ [][CtorNext]_vars

-----------------------------------------------------------------------------
(* The dispatcher and its directories: claims C4, C5, C8, C9 (SimSpec) *)

\* the Simulation objects whose working directory is d
SimsOf(d) == {s \in 1..Len(sims) : sims[s].dir = d}

\* C4: in every dispatch mode, a directory that holds the completion marker
\* holds params.pickle and the output file of every stimulation condition,
\* and its Simulation holds the waveform of every condition.
C4_MarkerMeansComplete ==
    \A d \in 1..Len(disk) :
        disk[d].marker =>
            /\ disk[d].pickle
            /\ disk[d].files = Range(Currents)
            /\ \A s \in SimsOf(d) : sims[s].wset = "array" /\ sims[s].waves = Currents

\* whether the caller of the dispatch of Simulation s has control back: the
\* synchronous constructor has returned or raised, wait() has returned on
\* the asynchronous one
Returned(s) ==
    \/ sims[s].mode = "pool" /\ ~(main.pc = "construct" /\ main.s = s)
    \/ sims[s].mode = "async" /\ sims[s].waited

\* the output file of some condition of s was missing after its subprocess ran
OutputMissing(s) == \E c \in 1..NCond : sims[s].task[c] = "err"

\* C5: when the output file of a condition is missing after its subprocess
\* ran, the completion marker is never written and the load error has been
\* raised to the caller of the dispatch by the time it has control back, in
\* pooled and asynchronous mode alike.
C5_LoadErrorPropagates ==
    \A s \in 1..Len(sims) :
        OutputMissing(s) =>
            /\ ~disk[sims[s].dir].marker
            /\ Returned(s) => sims[s].raised

\* the triples of ret, when the last call was SimulationResults.load
Yielded == IF ret.op = "results_load" THEN ret.val ELSE <<>>

\* C8: SimulationResults.load raises nothing and yields only directories
\* that hold the completion marker, in ascending order of the modification
\* time of params.pickle, numbered 0..n-1 with the total n of those yielded.
C8_LoadYieldsCompleteInOrder ==
    ret.op = "results_load" =>
        /\ ret.err = "none"
        /\ \A n \in 1..Len(Yielded) :
              /\ Yielded[n][1] = n - 1
              /\ Yielded[n][2] = Len(Yielded)
              /\ Yielded[n][3] \in 1..Len(disk)
              /\ disk[Yielded[n][3]].marker
        /\ \A m, n \in 1..Len(Yielded) :
              m < n => disk[Yielded[m][3]].mtime < disk[Yielded[n][3]].mtime

\* a load that yielded two directories and passed over one in flight and one
\* that crashed, neither of which holds the marker
C8_Witness ==
    /\ Len(Yielded) = 2
    /\ \E d \in 1..Len(disk) : ~disk[d].marker
    /\ \E s \in 1..Len(sims) : OutputMissing(s) \/ ~TasksDone(sims[s])

\* C9: load(last) yields exactly min(last, N) of the N completed
\* directories, the most recently created ones, and all N for last=None.
C9_LastMostRecent ==
    [][\A last \in Lasts :
          ResultsLoad(last) =>
              LET N == Cardinality(Complete(disk))
                  n == IF last = NoLast THEN N ELSE Min(last, N)
                  got == {ret'.val[k][3] : k \in 1..Len(ret'.val)}
              IN /\ Len(ret'.val) = n
                 /\ \A d \in got, e \in Complete(disk) \ got :
                       disk[e].mtime < disk[d].mtime]_vars

-----------------------------------------------------------------------------
(* The evaluations of a Fit: claims C1, C3 (Spec) *)

\* the scaled vector Simulation s was constructed for
KeyOf(s) == scale_dict(sims[s].params)

\* a step in which a Simulation is constructed, and the vector it is for
Constructs == Len(sims') > Len(sims)
Constructed == scale_dict(sims'[Len(sims')].params)

\* C1 as stated: at most one Simulation is ever constructed per distinct
\* scaled vector.
C1_OneSimulationPerVector ==
    \A a, b \in 1..Len(sims) : KeyOf(a) = KeyOf(b) => a = b

\* C1, amended: of the Simulations constructed for one scaled vector, every
\* one but the last raised out of its constructor; once Fit.sim has returned
\* for a vector no Simulation is constructed for it again; and once
\* Fit.fitness has returned a value for a vector, that vector has an entry in
\* the cache of Fit.sim, the value stored for it never changes, and it is
\* the value every Fit.fitness call with that vector returns.
C1_MemoizedPerVector ==
    /\ [](\A a, b \in 1..Len(sims) : (a < b /\ KeyOf(a) = KeyOf(b)) => sims[a].raised)
    /\ [](DOMAIN fitness_value \subseteq DOMAIN sim_value)
    /\ []((ret.op = "fitness" /\ ret.err = "none") =>
             (Cached(fitness_value, ret.key) /\ ret.val = <<fitness_value[ret.key]>>))
    /\ [][/\ Constructs => ~Cached(sim_value, Constructed)
          /\ \A v \in DOMAIN fitness_value :
                Cached(fitness_value', v) /\ fitness_value'[v] = fitness_value[v]]_vars

\* a synchronous Simulation raised, the one constructed for the same vector
\* afterwards is the entry of the cache, and Fit.fitness has returned the one
\* value the vector was scored with
C1_Witness ==
    \E a, b \in 1..Len(sims) :
        /\ a < b
        /\ KeyOf(a) = KeyOf(b)
        /\ sims[a].raised
        /\ Cached(sim_value, KeyOf(b))
        /\ sim_value[KeyOf(b)] = SimEntry(b)
        /\ Cached(fitness_value, KeyOf(b))
        /\ ret = Ret("fitness", KeyOf(b), "none", <<fitness_value[KeyOf(b)]>>)
        /\ Len(history) = 1

\* whether wait() has returned on the simulation of a cache entry, when it
\* was dispatched asynchronously
WaitedFor(entry) ==
    (entry.kind = "sim" /\ sims[entry.id].mode = "async") => sims[entry.id].waited

\* C3: the fitness function is applied to an asynchronously dispatched
\* Simulation only after wait() has been called on it and has returned.
C3_WaitBeforeFitness ==
    [][/\ score => WaitedFor(sim_value[main.v])
       /\ (multi_fitness /\ ~Cached(fitness_value, main.points[main.j]))
             => WaitedFor(sim_value[main.points[main.j]])]_vars

-----------------------------------------------------------------------------
(* do_fit: claims C2, C6 (FitSpec) and C10 (FairFitSpec) *)

\* the steps in which do_fit calls ask() and tell()
Asks == main.pc = "loop" /\ main'.pc = "sim"
Tells == main.pc = "tell" /\ main'.pc = "loop"

\* every candidate of the generation has its simulation by the time
\* fitness_multi waits and scores
DispatchedFirst ==
    (main.top = "do_fit" /\ main.pc \in {"fm_wait", "fm_fit", "tell"}) =>
        /\ Range(main.points) \subseteq DOMAIN sim_value
        /\ \A k \in Range(main.points) :
              sim_value[k].kind = "sim" => sim_value[k].id \in 1..Len(sims)

\* the values handed to tell(): one per candidate, in the order of the candidates
ValuesMatch ==
    /\ Len(main.vals) = Len(main.points)
    /\ \A j \in 1..Len(main.points) :
          /\ Cached(fitness_value, main.points[j])
          /\ main.vals[j] = fitness_value[main.points[j]]

C6_FailedNotCached ==
    main.pc = "idle" =>
        \A k \in DOMAIN sim_value :
            sim_value[k].kind = "sim" =>
                ~(OutputMissing(sim_value[k].id) /\ TasksDone(sims[sim_value[k].id]))

\* C10: do_fit(count) runs at most count generations, asks only while the
\* stop predicate is false, does nothing to the optimizer and dispatches no
\* simulation once it is true, and returns or raises when the tasks of the
\* simulations it dispatched end.
C10_DoFitBounded ==
    /\ [](main.top = "do_fit" => main.i <= main.count)
    /\ [][Asks => (main.i < main.count /\ ~optimizer.stop)]_vars
    /\ [][(main.top = "do_fit" /\ optimizer.stop) =>
             (~Constructs /\ optimizer' = optimizer)]_vars
    /\ (main.top = "do_fit") ~> (main.pc = "idle")

\* do_fit has returned after a generation that made the stop predicate true
C10_Witness ==
    /\ ret = Ret("do_fit", <<>>, "none", <<>>)
    /\ optimizer.stop
    /\ ~optimizer.asked
    /\ Len(history) >= 1

-----------------------------------------------------------------------------
(* Fit.load: claim C7 (LoadSpec) *)

\* the directories load(last) yields, in the order it yields them
YieldedDirs(last) ==
    LET listing == CHOOSE l \in Listings(Complete(disk)) : TRUE
    IN dirs(disk, listing, last)

\* C7 as stated: after Fit.load, whatever last, the key of every completed
\* directory is in the cache of Fit.sim.
C7_LoadServesAllCompleted ==
    [][\A last \in Lasts :
          load(last) =>
              \A d \in Complete(disk) : Cached(sim_value', scale_dict(disk[d].params))]_vars

\* C7, amended: after Fit.load(last) the key of every completed directory
\* that SimulationResults.load(last) yields (every completed directory for
\* last=None) is in the cache of Fit.sim, so that Fit.sim constructs no
\* Simulation for it; load replaces no entry; and a key it adds is bound to
\* the earliest created of the yielded directories with that key.
C7_LoadAddsAbsentKeys ==
    /\ [][\A last \in Lasts :
            load(last) =>
                LET ds == YieldedDirs(last)
                    key(d) == scale_dict(disk[d].params)
                IN /\ last = NoLast => Range(ds) = Complete(disk)
                   /\ \A d \in Range(ds) : Cached(sim_value', key(d))
                   /\ \A k \in DOMAIN sim_value :
                         Cached(sim_value', k) /\ sim_value'[k] = sim_value[k]
                   /\ \A k \in DOMAIN sim_value' \ DOMAIN sim_value :
                         \E d \in Range(ds) :
                            /\ sim_value'[k] = ResEntry(d)
                            /\ key(d) = k
                            /\ \A e \in Range(ds) :
                                  key(e) = k => disk[d].mtime <= disk[e].mtime]_vars
    /\ [][Constructs => ~Cached(sim_value, Constructed)]_vars

\* two completed directories of an earlier run share a key; load has bound
\* it to the first, and Fit.sim has returned that entry with no Simulation
\* constructed
C7_Witness ==
    /\ Len(disk) = 2
    /\ scale_dict(disk[1].params) = scale_dict(disk[2].params)
    /\ Complete(disk) = {1, 2}
    /\ sims = <<>>
    /\ ret = Ret("sim", scale_dict(disk[1].params), "none", <<ResEntry(1)>>)

-----------------------------------------------------------------------------
(* Fit.fitness_full and the history: claims C11, C12 (FullSpec) *)

\* C11: with a worst fitness recorded, a fitness_full call for a vector
\* outside the bounds returns (a penalty) without raising and without
\* constructing a Simulation, and it never goes on to Fit.sim.
C11_PenaltyOutOfBounds ==
    /\ [][(main.pc = "idle" /\ fitness_worst # None /\ ret'.op = "fitness_full"
            /\ ~InBounds(ret'.key)) =>
             (ret'.err = "none" /\ ~Constructs)]_vars
    /\ [][(main.pc = "idle" /\ main'.pc = "sim" /\ main'.top = "fitness_full") =>
             (fitness_worst = None \/ InBounds(main'.v))]_vars

-----------------------------------------------------------------------------
(* exe_map: claim C20 (SimSpec) *)

\* C20: at most one pool is ever made; it is made by the first request that
\* is not single and synchronous, and _exe never changes afterwards; every
\* pooled or async request maps with that pool, and a single synchronous
\* request maps with the builtin map and leaves _exe alone.
C20_OnePoolReused ==
    /\ [](exe \in {0, 1})
    /\ [](\A s \in 1..Len(sims) :
             IF sims[s].mode = "single" THEN sims[s].pool = 0
             ELSE sims[s].pool = 1 /\ exe = 1)
    /\ [][exe' # exe =>
             (exe = 0 /\ Constructs /\ sims'[Len(sims')].mode # "single")]_vars

\* a single synchronous request before the pool existed, then a pooled and an
\* async request on the one pool
C20_Witness ==
    /\ Len(sims) = 3
    /\ sims[1].mode = "single"
    /\ sims[2].mode = "pool"
    /\ sims[3].mode = "async"
    /\ sims[2].pool = sims[3].pool
    /\ exe = 1

-----------------------------------------------------------------------------
(* AjuParam: claims C17, C18 (AjuSpec) *)

\* the calls of the chain that ended with ret
Ops == [i \in 1..Len(ret.key) |-> ret.key[i].op]

\* C17: the scaling factor of every AjuParam is positive, scale never
\* raises, unscale(scale(v)) = v, scale(unscale(x)) = x, and
\* scale(unscale(scale(v))) = scale(v).
C17_ScaleUnscaleInverse ==
    /\ aju.scaling.m > 0
    /\ ret.op \in {"scale", "scaled"} => ret.err = "none"
    /\ (ret.err = "none" /\ Ops \in {<<"scale", "unscale">>, <<"unscale", "scale">>}) =>
           ret.val[1] = ret.key[1].arg
    /\ (ret.err = "none" /\ Ops = <<"scale", "unscale", "scale">>) =>
           ret.val[1] = ret.key[2].arg

\* the reference value of the scaling: value if nonzero, else max if set and
\* nonzero, else min if set, else 0
Reference(p) ==
    IF p.value.m # 0 THEN p.value
    ELSE IF p.max # NoneVal /\ p.max.m # 0 THEN p.max
    ELSE IF p.min # NoneVal THEN p.min ELSE PyInt(0)

\* x is 10^k as a float, for the k with 10^k <= |r| < 10^(k+1)
DecadeOf(x, r) ==
    LET n == Abs(Numer(r))
        d == Denom(r)
    IN \E k \in -3..3 :
          /\ x = PyPow10(k)
          /\ IF k >= 0 THEN n >= Pow10(k) * d /\ n < Pow10(k + 1) * d
             ELSE n * Pow10(-k) >= d /\ n * Pow10(-k - 1) < d

\* C18: the scaling factor is 1 when the reference r is 0 or
\* 0.1 <= |r| <= 10, else the power of ten 10^floor(log10(|r|)); and the
\* scaled magnitude of a nonzero starting value lies in [0.1, 10].
C18_ScalingFactor ==
    /\ LET r == Reference(aju)
       IN IF r.m = 0 \/ (Le(Fl(1, 10), AbsNum(r)) /\ Le(AbsNum(r), PyInt(10)))
          THEN aju.scaling = PyInt(1)
          ELSE DecadeOf(aju.scaling, r)
    /\ (aju.value.m # 0 /\ ret.op = "scaled") =>
           /\ ret.err = "none"
           /\ 10 * Abs(Numer(ret.val[1])) >= Denom(ret.val[1])
           /\ Abs(Numer(ret.val[1])) <= 10 * Denom(ret.val[1])

-----------------------------------------------------------------------------
(* ParamSet: claims C13, C14, C15, C16, C19 (ParamSpec) *)

\* the identities of the Param objects of the ParamSets made so far
ParamIds == UNION {{psets[s].params[i].id : i \in 1..Len(psets[s].params)} : s \in Psets}

\* the ParamSet the call that ended with ret was made on
Self == psets[ret.key.s]

\* the names of the params of ps
Names(ps) == {ps.params[i].name : i \in 1..Len(ps.params)}

\* C13: update returns a new ParamSet of the same length and order: a param
\* named in kwargs is a new object with the new value, fixed if it was fixed
\* and with the old min and max, every other param is the same object, and
\* no ParamSet that existed is changed.
C13_UpdateChangesNamedOnly ==
    [][Len(psets') > Len(psets) =>
          LET old == psets[ret'.key.s]
              new == psets'[Len(psets')]
              kwargs == ret'.key.arg
          IN /\ ret'.op = "update"
             /\ ret'.val = <<Len(psets')>>
             /\ Len(new.params) = Len(old.params)
             /\ \A i \in 1..Len(old.params) :
                   IF old.params[i].name \in DOMAIN kwargs
                   THEN /\ new.params[i].name = old.params[i].name
                        /\ new.params[i].value = kwargs[old.params[i].name]
                        /\ new.params[i].fixed = old.params[i].fixed
                        /\ new.params[i].min = old.params[i].min
                        /\ new.params[i].max = old.params[i].max
                        /\ new.params[i].id \notin ParamIds
                   ELSE new.params[i] = old.params[i]
             /\ \A s \in Psets : psets'[s] = psets[s]]_vars

\* update(gmax=7) on an optimizable gmax with bounds and a fixed morph
C13_Witness ==
    /\ Len(psets) = 2
    /\ ret.op = "update"
    /\ ret.err = "none"
    /\ DOMAIN ret.key.arg = {"gmax"}
    /\ Len(psets[1].params) = 2
    /\ ~psets[1].params[1].fixed
    /\ psets[1].params[1].max = PyInt(100)
    /\ psets[1].params[2].fixed
    /\ psets[2].params[1].value = PyInt(7)
    /\ psets[2].params[1].id # psets[1].params[1].id
    /\ psets[2].params[2] = psets[1].params[2]

\* C14: update with a name no param of the set has raises a lookup error,
\* and scale_dict raises KeyError when the mapping lacks the name of an
\* optimizable param.
C14_UnknownNameFails ==
    /\ (ret.op = "update" /\ ~(DOMAIN ret.key.arg \subseteq Names(Self))) =>
           ret.err = "KeyError"
    /\ (ret.op = "scale_dict"
          /\ \E i \in 1..Len(Self.ajuparams) :
                Self.ajuparams[i].name \notin DOMAIN ret.key.arg) =>
           ret.err = "KeyError"

\* fixedparams and ajuparams are the fixed and the optimizable params in the
\* order of params, and scaled has one value per optimizable param
Partitioned ==
    /\ \A s \in Psets :
          /\ psets[s].fixedparams = SelectSeq(psets[s].params, LAMBDA p : p.fixed)
          /\ psets[s].ajuparams = SelectSeq(psets[s].params, LAMBDA p : ~p.fixed)
    /\ ret.op = "scaled" =>
          (ret.err = "none" /\ Len(ret.val[1]) = Len(Self.ajuparams))

\* ret is what unscaled_dict(scaled) returned
UnscaledScaled ==
    /\ ret.op = "unscaled_dict"
    /\ ParamSet_scaled(Self).err = "none"
    /\ ret.key.arg = List(ParamSet_scaled(Self).val[1])

\* the pairs unscaled_dict goes through: the optimizable params with the
\* value unscaled, then the fixed ones with the value stored
Pairs(ps, scaled_values) ==
    [i \in 1..Len(ps.ajuparams) |->
        Item(ps.ajuparams[i].name,
             FMul(scaled_values[i], ps.ajuparams[i].scaling))]
    \o [i \in 1..Len(ps.fixedparams) |->
           Item(ps.fixedparams[i].name, ps.fixedparams[i].value)]

\* C15: fixedparams and ajuparams are an order-preserving partition of
\* params, len(scaled) = len(ajuparams), and unscaled_dict(scaled) has exactly
\* len(params) entries, one per optimizable param with its unscaled value and
\* one per fixed param with its stored value.
C15_OneEntryPerParam ==
    /\ Partitioned
    /\ UnscaledScaled =>
          /\ ret.err = "none"
          /\ ret.val[1] = Pairs(Self, ret.key.arg.items)

\* C16: scale, unscale and unscaled_dict raise for every input whose number
\* of values is not len(ajuparams).
C16_LengthMismatchFails ==
    (ret.op \in {"scale", "unscale", "unscaled_dict"}
       /\ Len(ret.key.arg.items) # Len(Self.ajuparams)) =>
        ret.err # "none"

\* the pair scaled_bounds is to return for ps
Bounds(ps) ==
    <<[i \in 1..Len(ps.ajuparams) |->
          IF ps.ajuparams[i].min = NoneVal THEN NoneVal
          ELSE FDiv(ps.ajuparams[i].min, ps.ajuparams[i].scaling)],
      [i \in 1..Len(ps.ajuparams) |->
          IF ps.ajuparams[i].max = NoneVal THEN NoneVal
          ELSE FDiv(ps.ajuparams[i].max, ps.ajuparams[i].scaling)]>>

\* C19: scaled_bounds is the pair of the lists of min and of max of the
\* optimizable params, each divided by the scaling factor of its param, None
\* where unset; its body runs at most once per ParamSet, and every read
\* returns the same value.
C19_ScaledBoundsOnce ==
    /\ [](\A s \in Psets :
             /\ psets[s].computed <= 1
             /\ psets[s].once # <<>> => psets[s].once = <<Bounds(psets[s])>>)
    /\ [](ret.op = "scaled_bounds" =>
             (ret.err = "none" /\ ret.val = <<Bounds(Self)>> /\ ret.val = Self.once))
    /\ [][\A s \in Psets :
             psets[s].once # <<>> =>
                 (psets'[s].once = psets[s].once /\ psets'[s].computed = 1)]_vars

\* ParamSet(('gmax', 50, 0, 100), ('morph', 'file.p')): one optimizable and
\* one fixed param, and scaled_bounds read as ([0.0], [10.0])
C19_Witness ==
    /\ ret.op = "scaled_bounds"
    /\ Self.params = <<AjuParam(1, "gmax", PyInt(50), PyInt(0), PyInt(100)),
                       Param(2, "morph", Str("file.p"))>>
    /\ Len(Self.ajuparams) = 1
    /\ Len(Self.fixedparams) = 1
    /\ ret.val[1] = <<(<<PyInt(0)>>), (<<PyInt(10)>>)>>
    /\ Self.computed = 1

-----------------------------------------------------------------------------
(* Simulation.__init__: claim C21 (CtorSpec) *)

\* C21: a Simulation constructed without simtime or without baseline raises
\* ValueError before any effect: no directory and no params.pickle is made,
\* no Simulation comes to be whose conditions a subprocess could run, and
\* nothing else of the state changes.
C21_MissingArgumentFailsFast ==
    [][\A simtime \in SimtimeArgs, baseline \in BaselineArgs, single, async \in BOOLEAN :
          (CallSimulation(simtime, baseline, single, async)
             /\ (simtime = None \/ baseline = None)) =>
              /\ ret'.op = "Simulation"
              /\ ret'.err = "ValueError"
              /\ disk' = disk
              /\ sims' = sims
              /\ exe' = exe
              /\ main' = main]_vars

\* a constructor without baseline has raised after an earlier Simulation was
\* made, whose directory is the only one
C21_Witness ==
    /\ ret.op = "Simulation"
    /\ ret.err = "ValueError"
    /\ ret.key = <<(<<1>>), None>>
    /\ Len(sims) = 1
    /\ Len(disk) = 1

-----------------------------------------------------------------------------
(* do_fit and its optimizer: claims C22, C23 (OptSpec) *)

\* a caller calls do_fit(count, ...) with args for some count
DoFitWith(args) ==
    \E count \in 0..MaxCount :
       do_fit(count, args.params, args.sigma, args.popsize, args.seed)

\* C22: a Fit makes at most one optimizer: the first do_fit call makes it,
\* and every later do_fit call, whatever its arguments, goes on with that
\* optimizer in the state it is in, its configuration unchanged.
C22_OptimizerMadeOnce ==
    /\ [](optimizer.id <= 1)
    /\ [](optimizer.made <=> optimizer.id = 1)
    /\ [][\A args \in DoFitCalls :
             DoFitWith(args) =>
                 /\ optimizer'.made
                 /\ optimizer.made => optimizer' = optimizer]_vars
    /\ [][optimizer.made =>
             /\ optimizer'.made
             /\ optimizer'.id = optimizer.id
             /\ optimizer'.x0 = optimizer.x0
             /\ optimizer'.sigma = optimizer.sigma
             /\ optimizer'.popsize = optimizer.popsize
             /\ optimizer'.seed = optimizer.seed
             /\ optimizer'.bounds = optimizer.bounds]_vars

\* a do_fit call with another sigma than the optimizer was made with is
\* running a generation of the first optimizer, which has been told before
C22_Witness ==
    /\ main.top = "do_fit"
    /\ main.pc = "tell"
    /\ main.args.sigma # optimizer.sigma
    /\ optimizer.id = 1
    /\ optimizer.asked
    /\ fitness_value # NoCache

\* C23: the first do_fit call makes the optimizer from its arguments: the
\* initial vector params (the scaled vector of the ParamSet for None), the
\* step size sigma, the population size popsize, the seed seed and the
\* scaled bounds of the ParamSet.
C23_OptimizerFromArguments ==
    [][\A args \in DoFitCalls :
          (~optimizer.made /\ DoFitWith(args)) =>
              /\ optimizer'.x0 = (IF args.params = None THEN scaled ELSE args.params)
              /\ optimizer'.sigma = args.sigma
              /\ optimizer'.popsize = args.popsize
              /\ optimizer'.seed = args.seed
              /\ optimizer'.bounds = scaled_bounds]_vars

-----------------------------------------------------------------------------
(* The worst fitness: claim C24 (FullSpec) *)

\* the fitness the simulated evaluation of fitness_full recorded for k, of
\* which the cache holds the negation
Recorded(k) == Negated(fitness_full_value[k])

\* self._fitness_worst when it is set
Worst == history[fitness_worst[1]]

-----------------------------------------------------------------------------
(* Dispatch modes: claim C25 (SimSpec) *)

\* Simulation s holds the waveform of every condition, in the order of the
\* conditions, and its directory holds the completion marker
Completed(s) ==
    /\ sims[s].wset = "array"
    /\ sims[s].waves = Currents
    /\ disk[sims[s].dir].marker

\* the constructor of the synchronous Simulation s has returned
ConstructorReturned(s) ==
    /\ sims[s].mode # "async"
    /\ ~(main.pc = "construct" /\ main.s = s)
    /\ ~sims[s].raised

\* C25: the constructor of an asynchronous Simulation returns without
\* waiting for its conditions; once wait() has returned on it and every
\* condition succeeded, it holds one waveform per condition in the order of
\* the conditions and the marker is on disk.  A synchronous constructor
\* returns only in that state, and wait() on it has nothing to wait for.
C25_WaitMeansComplete ==
    /\ [][(Constructs /\ sims'[Len(sims')].mode = "async") =>
             /\ \A c \in 1..NCond : sims'[Len(sims')].task[c] = "todo"
             /\ sims'[Len(sims')].wset = "unset"
             /\ ~disk'[sims'[Len(sims')].dir].marker
             /\ main'.pc = "idle"]_vars
    /\ [](\A s \in 1..Len(sims) :
             (sims[s].mode = "async" /\ sims[s].waited /\ TasksOk(sims[s])) =>
                 Completed(s))
    /\ [](\A s \in 1..Len(sims) :
             ConstructorReturned(s) => (Completed(s) /\ sims[s].result = "none"))

-----------------------------------------------------------------------------
(* SimulationResult: claim C26 (SimSpec) *)

\* C26: the SimulationResult made from the directory of a completed
\* Simulation has the params the Simulation persisted and one waveform per
\* condition of the Simulation, each tagged with the condition its file name
\* gives, in ascending order of the conditions; a condition is recovered
\* from its file name as it was.
C26_ResultMatchesSimulation ==
    /\ [](\A c \in (-MaxInjection)..MaxInjection : iv_filename_to_current(iv_filename(c)) = c)
    /\ [][\A d \in 1..Len(disk) :
            (ret'.op = "SimulationResult" /\ NewSimulationResult(d) /\ disk[d].marker) =>
                /\ ret'.err = "none"
                /\ \A s \in SimsOf(d) : ret'.val[1].params = sims[s].params
                /\ Len(ret'.val[1].waves) = NCond
                /\ ret'.val[1].waves = SortAscending(Range(Currents))]_vars

-----------------------------------------------------------------------------
(* Crashed and pending runs: claim C27 (SimSpec) *)

\* the run of a Simulation crashed: the output file of one of its conditions
\* never materialized
Crashed(simulation) == \E c \in 1..NCond : simulation.task[c] = "err"

\* the run of a dispatched Simulation is pending: nothing failed so far and
\* the completion marker is not written yet
Pending(simulation) ==
    simulation.mode # "single" /\ ~Crashed(simulation) /\ ~disk[simulation.dir].marker

\* what the working directory holds: params.pickle and its content, the
\* output files and the completion marker
Observation(dir) ==
    [pickle |-> dir.pickle, params |-> dir.params, files |-> dir.files, marker |-> dir.marker]

\* C27: a crashed run is distinguishable from a pending one by what its
\* working directory holds: the step in which a pending run crashes changes
\* its directory, and no crashed Simulation has a directory holding the same
\* as the directory of a pending one.
C27_CrashedDiffersFromPending ==
    /\ [][\A s \in 1..Len(sims) :
            (Pending(sims[s]) /\ Crashed(sims'[s])) => disk'[sims[s].dir] # disk[sims[s].dir]]_vars
    /\ [](\A s, t \in 1..Len(sims) :
            (Crashed(sims[s]) /\ Pending(sims[t])) =>
                Observation(disk[sims[s].dir]) # Observation(disk[sims[t].dir]))

-----------------------------------------------------------------------------
(* The cache of simulations: claim C28 (CacheSpec) *)

\* a Simulation for which _set_result ran
SetResult(s) == s \in 1..Len(sims) /\ sims[s].wset # "unset"

\* C28: no step of sim, fitness, fitness_full, fitness_multi, load or do_fit
\* removes a key of the cache of simulations or binds a key it has to
\* another simulation; a Simulation that has completed keeps its parameters
\* and waveforms, and a directory that holds the completion marker keeps its
\* parameters and output files.
C28_CacheOnlyGrows ==
    /\ [][\A k \in DOMAIN sim_value :
            k \in DOMAIN sim_value' /\ sim_value'[k] = sim_value[k]]_vars
    /\ [][\A s \in 1..Len(sims) :
            SetResult(s) =>
                /\ s \in 1..Len(sims')
                /\ sims'[s].params = sims[s].params
                /\ sims'[s].wset = sims[s].wset
                /\ sims'[s].waves = sims[s].waves]_vars
    /\ [][\A d \in 1..Len(disk) :
            disk[d].marker =>
                /\ d \in 1..Len(disk')
                /\ disk'[d] = disk[d]]_vars

\* load returned having met a key the cache had, bound to a Simulation of
\* this run that has completed, and having added the result of the earlier
\* run under another key
C28_Witness ==
    /\ ret.op = "load" /\ ret.err = "none"
    /\ \E k, l \in DOMAIN sim_value :
          /\ sim_value[k].kind = "sim"
          /\ SetResult(sim_value[k].id)
          /\ disk[sims[sim_value[k].id].dir].marker
          /\ sim_value[l].kind = "res"
          /\ disk[sim_value[l].id].marker
    /\ history # <<>>

=============================================================================
